---- MODULE Spec2Model ----
(***************************************************************************)
(* Model of dali/image/image.cc: the Image decode-once handle              *)
(* (Image::Image, Decode, GetImage, PeekShape, GetShape) and the           *)
(* file-name classifier (ListSupportedExtensions, HasKnownImageExtension). *)
(*                                                                         *)
(* Strings are sequences of character codes (ASCII), so that ::tolower,    *)
(* strlen, strncmp and std::string::rfind are modelled by what they do.    *)
(***************************************************************************)
EXTENDS Integers, Sequences, FiniteSets, TLC

VARIABLES
  \* ---- fields of one Image object (image.cc:59-63 and image.h) ----
  encoded_image_,   \* the bytes the borrowed pointer refers to
  length_,          \* the length given at construction
  image_type_,      \* the colour type given at construction
  decoded_,         \* the decoded flag
  decoded_image_,   \* std::shared_ptr<uint8_t>: NullPtr or [addr, data]
  shape_,           \* the stored shape: NoShape or <<H, W>>
  \* ---- what a caller of the Image observes ----
  ret,              \* outcome of the last call: [op, status, value, impl]
  heap,             \* number of decoded buffers allocated so far
  ctor,             \* the constructor's arguments, as given
  implDone,         \* results of the DecodeImpl calls that completed normally
  implFailed,       \* number of DecodeImpl calls that threw (counted to MaxFailures)
  peeked,           \* result of the last PeekShape made while still Pending
  \* ---- two callers inside Decode at once ----
  pc,               \* where each caller stands in Decode
  local,            \* each caller's local variable "decoded"
  \* ---- the classifier ----
  known,            \* the known-extension array the build was made with
  image_path,       \* the argument of HasKnownImageExtension
  result,           \* <<>> before the call, <<its return value>> after it
  cerr,             \* the messages written to std::cerr, in order
  listed,           \* <<>>, or <<the string ListSupportedExtensions returned>>
  \* ---- the Cast operator on one sample ----
  input,            \* ws.Input<CPUBackend>(0): [type, shape, data]
  output,           \* ws.Output<CPUBackend>(0): [type, shape, data]
  output_type_,     \* the dtype argument of the operator
  ran               \* whether RunImpl has run on the sample

vars == <<encoded_image_, length_, image_type_, decoded_, decoded_image_, shape_,
          ret, heap, ctor, implDone, implFailed, peeked, pc, local,
          known, image_path, result, cerr, listed,
          input, output, output_type_, ran>>

imageVars == <<encoded_image_, length_, image_type_, decoded_, decoded_image_,
               shape_, ret, heap, ctor, implDone, implFailed, peeked, pc, local>>

threadVars == <<pc, local>>

castVars == <<input, output, output_type_, ran>>

classifierVars == <<known, image_path, result, cerr, listed>>

-----------------------------------------------------------------------------
(* Bounds of the model *)

\* longest encoded buffer a constructed Image is given
MaxEncodedLen == 4

\* longest path handed to HasKnownImageExtension
MaxPathLen == 4

\* longest known-extension array ListSupportedExtensions is run over
MaxListLen == 3

\* DecodeImpl failures that are told apart (more are counted as this many)
MaxFailures == 2

\* most elements of a tensor handed to Cast
MaxCastSize == 2

\* longest path of lower-case characters handed to HasKnownImageExtension
MaxLongPathLen == 6

-----------------------------------------------------------------------------
(* Values *)

\* the values one encoded byte takes in the model
Bytes == {0, 1, 2}

\* DALIImageType values passed to the constructor
ImageTypes == {"DALI_RGB", "DALI_GRAY"}

\* a default-constructed std::shared_ptr
NullPtr == [addr |-> 0, data |-> <<>>]

\* the shape member before any Decode stored one (a shape has two dimensions)
NoShape == <<>>

\* the callers that may be inside Decode at the same time
Threads == {1, 2}

\* a caller's local "decoded" before DecodeImpl returned
NoDecoded == [first |-> NullPtr, second |-> NoShape]

\* marks "no call made yet" in ret
NoCall == "nocall"

\* all sequences over S of length at most n
SeqsUpTo(S, n) == UNION {[1..k -> S] : k \in 0..n}

\* all sequences over S of length 1..n
NonEmptySeqsUpTo(S, n) == UNION {[1..k -> S] : k \in 1..n}

-----------------------------------------------------------------------------
(* The format-specific extension points.  Image declares them pure virtual; *)
(* the model supplies one format: byte 1 is the height H, byte 2 the width  *)
(* W, and the body that follows holds H*W pixels.                           *)

\* the encoded payload buf[0..len)
Payload(buf, len) == SubSeq(buf, 1, len)

\* one decoded pixel under the requested colour type
ConvertPixel(type, b) == IF type = "DALI_GRAY" THEN b % 2 ELSE b

\* PeekShapeImpl(buf, len): reads the header only
PeekShapeImpl(buf, len) ==
  IF len < 2
    THEN [ok |-> FALSE, shape |-> NoShape]
    ELSE [ok |-> TRUE, shape |-> <<buf[1], buf[2]>>]

\* DecodeImpl(type, buf, len): throws on a payload whose body does not hold
\* H*W pixels, else returns the decoded pixels and their shape
DecodeImpl(type, buf, len) ==
  LET p == Payload(buf, len) IN
  IF len < 2 \/ len - 2 # p[1] * p[2]
    THEN [ok |-> FALSE, data |-> <<>>, shape |-> NoShape]
    ELSE [ok |-> TRUE,
          data |-> [i \in 1..(len - 2) |-> ConvertPixel(type, p[i + 2])],
          shape |-> <<p[1], p[2]>>]

-----------------------------------------------------------------------------
(* Image *)

\* what a call hands back to its caller
Outcome(op, status, shape, image, impl) ==
  [op |-> op, status |-> status, shape |-> shape, image |-> image, impl |-> impl]

\* member values before the constructor's initialiser list runs
DefaultMembers == [decoded_ |-> FALSE, decoded_image_ |-> NullPtr, shape_ |-> NoShape]

\* Image::Image(encoded_buffer, length, image_type)
Construct(encoded_buffer, length, image_type) ==
  /\ encoded_image_ = encoded_buffer
  /\ length_ = length
  /\ image_type_ = image_type
  /\ decoded_ = DefaultMembers.decoded_
  /\ decoded_image_ = DefaultMembers.decoded_image_
  /\ shape_ = DefaultMembers.shape_
  /\ ctor = [buffer |-> encoded_buffer, length |-> length, type |-> image_type]
  /\ ret = Outcome(NoCall, NoCall, NoShape, NullPtr, <<>>)
  /\ heap = 0
  /\ implDone = <<>>
  /\ implFailed = 0
  /\ peeked = NoShape

\* one more DecodeImpl call that threw; the count stops at MaxFailures
CountFailure(n) == IF n < MaxFailures THEN n + 1 ELSE n

\* Decode without its guard
DecodeEnforceDropped == TRUE

\* Decode also rejecting a call made while another Decode is under way
DecodeEnforceNoneUnderWay ==
  /\ ~decoded_
  /\ \A u \in Threads :
       pc[u] \notin {"impl", "store_image", "store_shape", "store_flag"}

\* DALI_ENFORCE(!decoded_, ...) of Decode passes
DecodeEnforce == ~decoded_

\* Decode handing DecodeImpl the whole buffer instead of length_
DecodeImplArgsWholeBuffer == <<image_type_, encoded_image_, Len(encoded_image_)>>

\* the arguments Decode hands to DecodeImpl
DecodeImplArgs == <<image_type_, encoded_image_, length_>>

\* Decode with the store of shape_ left out
DecodeStoreNoShape(decoded) ==
  [decoded_image_ |-> decoded.first, shape_ |-> shape_, decoded_ |-> TRUE]

\* Decode with the store of decoded_ left out
DecodeStoreNoFlag(decoded) ==
  [decoded_image_ |-> decoded.first, shape_ |-> decoded.second, decoded_ |-> decoded_]

\* the three stores of Decode: decoded_image_, shape_, decoded_
DecodeStore(decoded) ==
  [decoded_image_ |-> decoded.first, shape_ |-> decoded.second, decoded_ |-> TRUE]

\* Decode setting decoded_ before it calls DecodeImpl
DecodeFlagFirst ==
  /\ UNCHANGED <<encoded_image_, length_, image_type_, ctor, peeked>>
  /\ IF decoded_
       THEN /\ ret' = Outcome("Decode", "InvalidState", NoShape, NullPtr, <<>>)
            /\ UNCHANGED <<decoded_, decoded_image_, shape_, heap, implDone, implFailed>>
       ELSE LET a == DecodeImplArgs
                r == DecodeImpl(a[1], a[2], a[3])
            IN  /\ decoded_' = TRUE
                /\ IF ~r.ok
                     THEN /\ ret' = Outcome("Decode", "DecodeError", NoShape, NullPtr, <<a>>)
                          /\ implFailed' = CountFailure(implFailed)
                          /\ UNCHANGED <<decoded_image_, shape_, heap, implDone>>
                     ELSE LET decoded == [first |-> [addr |-> heap + 1, data |-> r.data],
                                          second |-> r.shape]
                          IN  /\ heap' = heap + 1
                              /\ implDone' = Append(implDone, decoded)
                              /\ UNCHANGED implFailed
                              /\ decoded_image_' = decoded.first
                              /\ shape_' = decoded.second
                              /\ ret' = Outcome("Decode", "ok", NoShape, NullPtr, <<a>>)

\* void Image::Decode()
Decode ==
  /\ UNCHANGED <<encoded_image_, length_, image_type_, ctor, peeked>>
  /\ IF ~DecodeEnforce
       THEN /\ ret' = Outcome("Decode", "InvalidState", NoShape, NullPtr, <<>>)
            /\ UNCHANGED <<decoded_, decoded_image_, shape_, heap, implDone, implFailed>>
       ELSE LET a == DecodeImplArgs
                r == DecodeImpl(a[1], a[2], a[3])
            IN  IF ~r.ok
                  THEN /\ ret' = Outcome("Decode", "DecodeError", NoShape, NullPtr, <<a>>)
                       /\ implFailed' = CountFailure(implFailed)
                       /\ UNCHANGED <<decoded_, decoded_image_, shape_, heap, implDone>>
                  ELSE LET decoded == [first |-> [addr |-> heap + 1, data |-> r.data],
                                       second |-> r.shape]
                           st == DecodeStore(decoded)
                       IN  /\ heap' = heap + 1
                           /\ implDone' = Append(implDone, decoded)
                           /\ UNCHANGED implFailed
                           /\ decoded_image_' = st.decoded_image_
                           /\ shape_' = st.shape_
                           /\ decoded_' = st.decoded_
                           /\ ret' = Outcome("Decode", "ok", NoShape, NullPtr, <<a>>)

\* GetImage handing out a copy of the decoded buffer
GetImageCopy ==
  /\ UNCHANGED <<encoded_image_, length_, image_type_, decoded_, decoded_image_,
                 shape_, heap, ctor, implDone, implFailed, peeked>>
  /\ ret' = IF decoded_
              THEN Outcome("GetImage", "ok", NoShape,
                           [addr |-> decoded_image_.addr + 1,
                            data |-> decoded_image_.data], <<>>)
              ELSE Outcome("GetImage", "InvalidState", NoShape, NullPtr, <<>>)

\* GetImage moving the decoded buffer out of the Image
GetImageMove ==
  /\ UNCHANGED <<encoded_image_, length_, image_type_, decoded_,
                 shape_, heap, ctor, implDone, implFailed, peeked>>
  /\ IF decoded_
       THEN /\ ret' = Outcome("GetImage", "ok", NoShape, decoded_image_, <<>>)
            /\ decoded_image_' = NullPtr
       ELSE /\ ret' = Outcome("GetImage", "InvalidState", NoShape, NullPtr, <<>>)
            /\ UNCHANGED decoded_image_

\* DALI_ENFORCE(decoded_, ...) of GetImage passes
GetImageEnforce == decoded_

\* std::shared_ptr<uint8_t> Image::GetImage() const
GetImage ==
  /\ UNCHANGED <<encoded_image_, length_, image_type_, decoded_, decoded_image_,
                 shape_, heap, ctor, implDone, implFailed, peeked>>
  /\ ret' = IF GetImageEnforce
              THEN Outcome("GetImage", "ok", NoShape, decoded_image_, <<>>)
              ELSE Outcome("GetImage", "InvalidState", NoShape, NullPtr, <<>>)

\* PeekShape ignoring length_ and handing over the whole buffer
PeekShapeImplArgsWholeBuffer == <<encoded_image_, Len(encoded_image_)>>

\* the arguments PeekShape hands to PeekShapeImpl
PeekShapeImplArgs == <<encoded_image_, length_>>

\* PeekShape implemented by a full decode that marks the Image decoded
PeekShapeByDecoding ==
  LET r == DecodeImpl(image_type_, encoded_image_, length_)
  IN  /\ UNCHANGED <<encoded_image_, length_, image_type_, heap, ctor, implDone,
                     implFailed, peeked, decoded_image_>>
      /\ shape_' = IF r.ok THEN r.shape ELSE shape_
      /\ decoded_' = (decoded_ \/ r.ok)
      /\ ret' = Outcome("PeekShape", IF r.ok THEN "ok" ELSE "DecodeError",
                        r.shape, NullPtr, <<>>)

\* Image::Shape Image::PeekShape() const
PeekShape ==
  LET a == PeekShapeImplArgs
      r == PeekShapeImpl(a[1], a[2])
  IN  /\ UNCHANGED <<encoded_image_, length_, image_type_, decoded_, decoded_image_,
                     shape_, heap, ctor, implDone, implFailed>>
      /\ ret' = Outcome("PeekShape", IF r.ok THEN "ok" ELSE "DecodeError",
                        r.shape, NullPtr, <<>>)
      /\ peeked' = IF decoded_ \/ ~r.ok THEN peeked ELSE r.shape

\* GetShape without its guard
GetShapeEnforceDropped == TRUE

\* DALI_ENFORCE(decoded_, ...) of GetShape passes
GetShapeEnforce == decoded_

\* Image::Shape Image::GetShape() const
GetShape ==
  /\ UNCHANGED <<encoded_image_, length_, image_type_, decoded_, decoded_image_,
                 shape_, heap, ctor, implDone, implFailed, peeked>>
  /\ ret' = IF GetShapeEnforce
              THEN Outcome("GetShape", "ok", shape_, NullPtr, <<>>)
              ELSE Outcome("GetShape", "InvalidState", NoShape, NullPtr, <<>>)

\* no caller is inside Decode between two serial calls
ThreadsIdle ==
  /\ pc = [t \in Threads |-> "idle"]
  /\ local = [t \in Threads |-> NoDecoded]

\* a tensor nothing was written to yet
EmptyTensor == [type |-> "DALI_NO_TYPE", shape |-> <<0>>, data |-> <<>>]

\* the Cast operator is not run
CastIdle ==
  /\ input = EmptyTensor
  /\ output = EmptyTensor
  /\ output_type_ = "DALI_NO_TYPE"
  /\ ran = FALSE

\* the classifier is not called while an Image is exercised
ClassifierIdle ==
  /\ image_path = <<>>
  /\ result = <<>>
  /\ cerr = <<>>
  /\ listed = <<>>

\* one Image, constructed over any buffer, length and colour type
Init ==
  /\ \E buf \in SeqsUpTo(Bytes, MaxEncodedLen) :
       \E len \in 0..Len(buf) :
         \E type \in ImageTypes : Construct(buf, len, type)
  /\ ThreadsIdle
  /\ CastIdle
  /\ known = <<>>
  /\ ClassifierIdle

\* serial calls on the Image, in any order
Next ==
  \/ Decode /\ UNCHANGED <<classifierVars, threadVars, castVars>>
  \/ GetImage /\ UNCHANGED <<classifierVars, threadVars, castVars>>
  \/ PeekShape /\ UNCHANGED <<classifierVars, threadVars, castVars>>
  \/ GetShape /\ UNCHANGED <<classifierVars, threadVars, castVars>>

Spec == Init /\ [][Next]_vars

-----------------------------------------------------------------------------
(* Two callers in Decode on the same Image without synchronisation: the     *)
(* guard, the DecodeImpl call and the three stores of image.cc:66-70 are    *)
(* separate steps.  The stores of the two callers race; a racing store      *)
(* leaves in the member the value of either caller.                         *)

\* the callers that hold a DecodeImpl result and have yet to finish storing
Storing == {u \in Threads : pc[u] \in {"store_image", "store_shape", "store_flag"}}

\* the values a store by caller t may leave in a member, f picking the member
Stored(t, f) == {DecodeStore(local[u])[f] : u \in Storing \cup {t}}

\* line 66: the guard
DecodeGuardStep(t) ==
  /\ pc[t] = "call"
  /\ IF DecodeEnforce
       THEN /\ pc' = [pc EXCEPT ![t] = "impl"]
            /\ UNCHANGED ret
       ELSE /\ pc' = [pc EXCEPT ![t] = "thrown"]
            /\ ret' = Outcome("Decode", "InvalidState", NoShape, NullPtr, <<>>)
  /\ UNCHANGED <<encoded_image_, length_, image_type_, decoded_, decoded_image_,
                 shape_, heap, ctor, implDone, implFailed, peeked, local>>

\* line 67: auto decoded = DecodeImpl(image_type_, encoded_image_, length_)
DecodeImplStep(t) ==
  /\ pc[t] = "impl"
  /\ LET a == DecodeImplArgs
         r == DecodeImpl(a[1], a[2], a[3])
     IN  IF ~r.ok
           THEN /\ pc' = [pc EXCEPT ![t] = "failed"]
                /\ ret' = Outcome("Decode", "DecodeError", NoShape, NullPtr, <<a>>)
                /\ implFailed' = CountFailure(implFailed)
                /\ UNCHANGED <<heap, implDone, local>>
           ELSE LET decoded == [first |-> [addr |-> heap + 1, data |-> r.data],
                                second |-> r.shape]
                IN  /\ pc' = [pc EXCEPT ![t] = "store_image"]
                    /\ local' = [local EXCEPT ![t] = decoded]
                    /\ heap' = heap + 1
                    /\ implDone' = Append(implDone, decoded)
                    /\ UNCHANGED <<ret, implFailed>>
  /\ UNCHANGED <<encoded_image_, length_, image_type_, decoded_, decoded_image_,
                 shape_, ctor, peeked>>

\* line 68: decoded_image_ = decoded.first
DecodeStoreImageStep(t) ==
  /\ pc[t] = "store_image"
  /\ decoded_image_' \in Stored(t, "decoded_image_")
  /\ pc' = [pc EXCEPT ![t] = "store_shape"]
  /\ UNCHANGED <<encoded_image_, length_, image_type_, decoded_, shape_, ret,
                 heap, ctor, implDone, implFailed, peeked, local>>

\* line 69: shape_ = decoded.second
DecodeStoreShapeStep(t) ==
  /\ pc[t] = "store_shape"
  /\ shape_' \in Stored(t, "shape_")
  /\ pc' = [pc EXCEPT ![t] = "store_flag"]
  /\ UNCHANGED <<encoded_image_, length_, image_type_, decoded_, decoded_image_,
                 ret, heap, ctor, implDone, implFailed, peeked, local>>

\* line 70: decoded_ = true, and the return
DecodeStoreFlagStep(t) ==
  /\ pc[t] = "store_flag"
  /\ decoded_' = DecodeStore(local[t]).decoded_
  /\ pc' = [pc EXCEPT ![t] = "done"]
  /\ ret' = Outcome("Decode", "ok", NoShape, NullPtr, <<DecodeImplArgs>>)
  /\ UNCHANGED <<encoded_image_, length_, image_type_, decoded_image_, shape_,
                 heap, ctor, implDone, implFailed, peeked, local>>

\* one Image and two callers, each about to call Decode once
InitConcurrent ==
  /\ \E buf \in SeqsUpTo(Bytes, MaxEncodedLen) :
       \E len \in 0..Len(buf) :
         \E type \in ImageTypes : Construct(buf, len, type)
  /\ pc = [t \in Threads |-> "call"]
  /\ local = [t \in Threads |-> NoDecoded]
  /\ CastIdle
  /\ known = <<>>
  /\ ClassifierIdle

NextConcurrent ==
  \/ \E t \in Threads : DecodeGuardStep(t) /\ UNCHANGED <<classifierVars, castVars>>
  \/ \E t \in Threads : DecodeImplStep(t) /\ UNCHANGED <<classifierVars, castVars>>
  \/ \E t \in Threads : DecodeStoreImageStep(t) /\ UNCHANGED <<classifierVars, castVars>>
  \/ \E t \in Threads : DecodeStoreShapeStep(t) /\ UNCHANGED <<classifierVars, castVars>>
  \/ \E t \in Threads : DecodeStoreFlagStep(t) /\ UNCHANGED <<classifierVars, castVars>>

SpecConcurrent == InitConcurrent /\ [][NextConcurrent]_vars

-----------------------------------------------------------------------------
(* The classifier: ListSupportedExtensions and HasKnownImageExtension.      *)
(* A string is the sequence of its character codes; a C string ends at its *)
(* first 0.                                                                 *)

\* the characters a path is made of: NUL . J P X j p x
PathChars == {0, 46, 74, 80, 88, 106, 112, 120}

\* kKnownImageExtensions of image.h: ".jp", ".jx", ".p"
kKnownImageExtensions == << <<46, 106, 112>>, <<46, 106, 120>>, <<46, 112>> >>

\* kSkipImageExtensions of image.h: "j.x", "xx.p"
kSkipImageExtensions == << <<106, 46, 120>>, <<120, 120, 46, 112>> >>

\* entries a build may configure as known extensions:
\* ".jpg", ".jpeg", ".png", ".bmp", ".tif"
ExtensionPool ==
  { <<46, 106, 112, 103>>, <<46, 106, 112, 101, 103>>, <<46, 112, 110, 103>>,
    <<46, 98, 109, 112>>, <<46, 116, 105, 102>> }

\* std::string::npos
npos == -1

\* ::tolower in the "C" locale
tolower(c) == IF c >= 65 /\ c <= 90 THEN c + 32 ELSE c

\* std::transform with ::tolower left out
ToLowerStrForgotten(str) == str

\* std::transform(path_low.begin(), path_low.end(), path_low.begin(), ::tolower)
ToLowerStr(str) == [i \in 1..Len(str) |-> tolower(str[i])]

\* the character at 1-based index i of a C string (0 is its terminator)
CharAt(str, i) == IF i <= Len(str) THEN str[i] ELSE 0

\* strlen: the number of characters before the first 0
strlen(str) ==
  IF \E i \in 1..Len(str) : str[i] = 0
    THEN (CHOOSE i \in 1..Len(str) :
            str[i] = 0 /\ \A j \in 1..(i - 1) : str[j] # 0) - 1
    ELSE Len(str)

RECURSIVE strncmpFrom(_, _, _, _)
\* strncmp's loop from character i on
strncmpFrom(a, b, n, i) ==
  IF i > n THEN 0
  ELSE IF CharAt(a, i) # CharAt(b, i) THEN CharAt(a, i) - CharAt(b, i)
  ELSE IF CharAt(a, i) = 0 THEN 0
  ELSE strncmpFrom(a, b, n, i + 1)

\* strncmp(a, b, n)
strncmp(a, b, n) == strncmpFrom(a, b, n, 1)

RECURSIVE rfindFrom(_, _, _)
\* rfind's backward scan from 0-based position pos
rfindFrom(str, ext, pos) ==
  IF pos < 0 THEN npos
  ELSE IF SubSeq(str, pos + 1, pos + strlen(ext)) = SubSeq(ext, 1, strlen(ext))
    THEN pos
    ELSE rfindFrom(str, ext, pos - 1)

\* std::string::rfind(const char *ext): the last position at which ext occurs
rfind(str, ext) ==
  IF strlen(ext) > Len(str) THEN npos
  ELSE rfindFrom(str, ext, Len(str) - strlen(ext))

\* the separator written on every round of the loop
NeedsSeparatorAlways(i, count) == i # count

\* if (i != known_extensions_count - 1)
NeedsSeparator(i, count) == i # count - 1

RECURSIVE ListLoop(_, _, _)
\* the for loop of ListSupportedExtensions from index i on, ss so far
ListLoop(arr, i, ss) ==
  IF i < Len(arr)
    THEN ListLoop(arr, i + 1,
                  ss \o SubSeq(arr[i + 1], 1, strlen(arr[i + 1]))
                     \o (IF NeedsSeparator(i, Len(arr)) THEN <<44, 32>> ELSE <<>>))
    ELSE ss

\* std::string ListSupportedExtensions()
ListSupportedExtensions == ListLoop(known, 0, <<>>)

\* the skip-list test of one entry against the path as given
SkipMatch(ext, path) ==
  /\ strlen(ext) = strlen(path)
  /\ strncmp(ext, path, strlen(ext)) = 0

\* the known-list test of one entry against the lower-cased path
KnownMatch(ext, path_low) ==
  LET pos == rfind(path_low, ext)
  IN  pos # npos /\ pos + strlen(ext) = Len(path_low)

\* "[Warning]: File "
WarningHead ==
  <<91, 87, 97, 114, 110, 105, 110, 103, 93, 58, 32, 70, 105, 108, 101, 32>>

\* " has extension that is not supproted by the decoder. "
WarningBody ==
  <<32, 104, 97, 115, 32, 101, 120, 116, 101, 110, 115, 105, 111, 110, 32,
    116, 104, 97, 116, 32, 105, 115, 32, 110, 111, 116, 32, 115, 117, 112,
    112, 114, 111, 116, 101, 100, 32, 98, 121, 32, 116, 104, 101, 32, 100,
    101, 99, 111, 100, 101, 114, 46, 32>>

\* "Supported extensions: "
WarningSupported ==
  <<83, 117, 112, 112, 111, 114, 116, 101, 100, 32, 101, 120, 116, 101, 110,
    115, 105, 111, 110, 115, 58, 32>>

\* the warning built from path_low instead of image_path
WarningOfLowered(path) ==
  WarningHead \o ToLowerStr(path) \o WarningBody \o WarningSupported
              \o ListSupportedExtensions \o <<46>>

\* the line written to std::cerr: "[Warning]: File " + image_path + ... +
\* "Supported extensions: " + ListSupportedExtensions() + "."
Warning(path) ==
  WarningHead \o path \o WarningBody \o WarningSupported
              \o ListSupportedExtensions \o <<46>>

\* the classifier with the known-list loop run before the skip-list loop
HasKnownImageExtensionKnownFirst(path) ==
  LET path_low == ToLowerStr(path) IN
  IF \E i \in 1..Len(known) : KnownMatch(known[i], path_low)
    THEN [value |-> TRUE, out |-> <<>>]
  ELSE IF \E i \in 1..Len(kSkipImageExtensions) :
            SkipMatch(kSkipImageExtensions[i], path)
    THEN [value |-> FALSE, out |-> <<>>]
  ELSE [value |-> FALSE, out |-> <<Warning(path)>>]

\* the classifier with the skip-list loop run on path_low
HasKnownImageExtensionSkipLowered(path) ==
  LET path_low == ToLowerStr(path) IN
  IF \E i \in 1..Len(kSkipImageExtensions) :
       SkipMatch(kSkipImageExtensions[i], path_low)
    THEN [value |-> FALSE, out |-> <<>>]
  ELSE IF \E i \in 1..Len(known) : KnownMatch(known[i], path_low)
    THEN [value |-> TRUE, out |-> <<>>]
  ELSE [value |-> FALSE, out |-> <<Warning(path)>>]

\* bool HasKnownImageExtension(const std::string &image_path): the value it
\* returns and the lines it writes to std::cerr
HasKnownImageExtension(path) ==
  LET path_low == ToLowerStr(path) IN
  IF \E i \in 1..Len(kSkipImageExtensions) :
       SkipMatch(kSkipImageExtensions[i], path)
    THEN [value |-> FALSE, out |-> <<>>]
  ELSE IF \E i \in 1..Len(known) : KnownMatch(known[i], path_low)
    THEN [value |-> TRUE, out |-> <<>>]
  ELSE [value |-> FALSE, out |-> <<Warning(path)>>]

\* a caller classifies image_path
CallHasKnownImageExtension ==
  /\ result = <<>>
  /\ LET r == HasKnownImageExtension(image_path)
     IN  /\ result' = <<r.value>>
         /\ cerr' = cerr \o r.out
  /\ UNCHANGED <<known, image_path, listed>>

\* a caller asks for the listing
CallListSupportedExtensions ==
  /\ listed = <<>>
  /\ listed' = <<ListSupportedExtensions>>
  /\ UNCHANGED <<known, image_path, result, cerr>>

\* no Image is exercised while the classifier is
ImageIdle == Construct(<<>>, 0, "DALI_RGB") /\ ThreadsIdle

\* the classifier as configured, handed any path
InitClassifier ==
  /\ ImageIdle
  /\ CastIdle
  /\ known = kKnownImageExtensions
  /\ image_path \in SeqsUpTo(PathChars, MaxPathLen)
  /\ result = <<>>
  /\ cerr = <<>>
  /\ listed = <<>>

NextClassifier ==
  \/ CallHasKnownImageExtension /\ UNCHANGED <<imageVars, castVars>>
  \/ CallListSupportedExtensions /\ UNCHANGED <<imageVars, castVars>>

SpecClassifier == InitClassifier /\ [][NextClassifier]_vars

\* the listing over any non-empty array of known extensions
InitList ==
  /\ ImageIdle
  /\ CastIdle
  /\ known \in NonEmptySeqsUpTo(ExtensionPool, MaxListLen)
  /\ image_path = <<>>
  /\ result = <<>>
  /\ cerr = <<>>
  /\ listed = <<>>

SpecList == InitList /\ [][NextClassifier]_vars

\* the characters of a path without capitals: NUL . j p x
LowerPathChars == {0, 46, 106, 112, 120}

\* the classifier as configured, handed longer paths without capitals
InitClassifierLong ==
  /\ ImageIdle
  /\ CastIdle
  /\ known = kKnownImageExtensions
  /\ image_path \in SeqsUpTo(LowerPathChars, MaxLongPathLen)
  /\ result = <<>>
  /\ cerr = <<>>
  /\ listed = <<>>

SpecClassifierLong == InitClassifierLong /\ [][NextClassifier]_vars

-----------------------------------------------------------------------------
(* dali/operators/util/cast.cc: Cast<CPUBackend>::RunImpl on one sample.    *)
(* A tensor is [type, shape, data]; data holds one element per position.    *)

\* the element types the type switch is run over
CastTypes == {"DALI_UINT8", "DALI_INT16", "DALI_INT32"}

\* some values of each element type
ValuesOf(type) ==
  CASE type = "DALI_UINT8" -> {0, 3, 255}
    [] type = "DALI_INT16" -> {-1, 300}
    [] type = "DALI_INT32" -> {-1, 70000}

RECURSIVE Volume(_)
\* the number of elements of a shape: the product of its extents
Volume(shape) == IF shape = <<>> THEN 1 ELSE Head(shape) * Volume(Tail(shape))

\* Tensor::size()
Size(tensor) == Volume(tensor.shape)

\* static_cast<OType>(v) between integer types: the value modulo 2^width,
\* read as signed for the signed types
StaticCast(otype, v) ==
  CASE otype = "DALI_UINT8" -> v % 256
    [] otype = "DALI_INT16" ->
         IF v % 65536 >= 32768 THEN (v % 65536) - 65536 ELSE v % 65536
    [] otype = "DALI_INT32" -> v

\* output.mutable_data<OType>(): the tensor takes the element type OType
MutableData(tensor, otype) == [tensor EXCEPT !.type = otype]

\* output.ResizeLike(input): the tensor takes the shape of the other, its
\* elements keeping their places as far as both sizes reach; RunImpl reads
\* none of the added elements before CPUHelper has written them
ResizeLike(tensor, other) ==
  [tensor EXCEPT !.shape = other.shape,
                 !.data = [i \in 1..Size(other) |->
                             IF i <= Len(tensor.data) THEN tensor.data[i] ELSE 0]]

\* CPUHelper<OType, IType>(out, in, N): out[i] = static_cast<OType>(in[i])
\* for the first N elements
CPUHelper(out, in, otype, n) ==
  [i \in 1..Len(out) |-> IF i <= n THEN StaticCast(otype, in[i]) ELSE out[i]]

\* RunImpl with the call of ResizeLike left out
RunImplNoResize ==
  /\ ~ran
  /\ LET typed == MutableData(output, output_type_)
     IN  output' = [typed EXCEPT !.data =
                      CPUHelper(typed.data, input.data, output_type_,
                                IF Size(input) <= Len(typed.data)
                                  THEN Size(input) ELSE Len(typed.data))]
  /\ ran' = TRUE
  /\ UNCHANGED <<input, output_type_>>

\* void Cast<CPUBackend>::RunImpl(SampleWorkspace &ws)
RunImpl ==
  /\ ~ran
  /\ LET typed == MutableData(output, output_type_)
         resized == ResizeLike(typed, input)
     IN  output' = [resized EXCEPT !.data =
                      CPUHelper(resized.data, input.data, output_type_, Size(input))]
  /\ ran' = TRUE
  /\ UNCHANGED <<input, output_type_>>

\* the shapes of at most MaxCastSize elements, of one or two dimensions
CastShapes ==
  {sh \in NonEmptySeqsUpTo(0..MaxCastSize, 2) : Volume(sh) <= MaxCastSize}

\* the tensors of element type "type"
TensorsOf(type) ==
  UNION {{[type |-> type, shape |-> sh, data |-> d] :
            d \in [1..Volume(sh) -> ValuesOf(type)]} : sh \in CastShapes}

\* a sample whose input is any tensor and whose output is fresh or holds an
\* earlier result of another type and shape
InitCast ==
  /\ ImageIdle
  /\ known = <<>>
  /\ ClassifierIdle
  /\ \E itype \in CastTypes : input \in TensorsOf(itype)
  /\ output \in {EmptyTensor,
                 [type |-> "DALI_UINT8", shape |-> <<3>>, data |-> <<7, 8, 9>>]}
  /\ output_type_ \in CastTypes
  /\ ran = FALSE

NextCast ==
  \/ RunImpl /\ UNCHANGED <<imageVars, classifierVars>>

SpecCast == InitCast /\ [][NextCast]_vars

-----------------------------------------------------------------------------
(* Claims about Image, checked under Spec *)

\* C1: once a Decode has succeeded, a further Decode call fails with
\* InvalidState, does not invoke DecodeImpl, and leaves decoded_image_, shape_
\* and decoded_ as the first call set them.
C1_SecondDecodeRejected ==
  [][(decoded_ /\ ret'.op = "Decode") =>
       /\ ret'.status = "InvalidState"
       /\ ret'.impl = <<>>
       /\ implDone' = implDone /\ Len(implDone) = 1
       /\ decoded_'
       /\ decoded_image_' = decoded_image_ /\ decoded_image_' = implDone[1].first
       /\ shape_' = shape_ /\ shape_' = implDone[1].second]_vars

\* a second Decode was made on a decoded Image and was rejected
C1_Witness ==
  /\ decoded_ /\ Len(implDone) = 1
  /\ ret.op = "Decode" /\ ret.status = "InvalidState"
  /\ shape_ = implDone[1].second /\ Len(decoded_image_.data) > 0

\* C2: while no Decode has succeeded, every GetImage and every GetShape fails
\* with InvalidState and hands back nothing, whatever calls preceded it.
C2_GetBeforeDecodeFails ==
  (implDone = <<>> /\ ret.op \in {"GetImage", "GetShape"}) =>
     /\ ret.status = "InvalidState"
     /\ ret.image = NullPtr
     /\ ret.shape = NoShape

\* GetShape was rejected on a Pending Image on which PeekShape had succeeded
C2_Witness ==
  /\ implDone = <<>> /\ ~decoded_
  /\ peeked # NoShape
  /\ ret.op = "GetShape" /\ ret.status = "InvalidState"

\* C3: a constructed Image starts Pending; only a Decode call takes it from
\* Pending to Decoded; once Decoded it never returns to Pending.
C3_OneWayLifecycle ==
  /\ ~decoded_
  /\ [][/\ decoded_ => decoded_'
        /\ (~decoded_ /\ decoded_') => (ret'.op = "Decode" /\ ret'.status = "ok")]_vars

\* a decoded Image on which a later PeekShape was made and which is still Decoded
C3_Witness ==
  /\ decoded_
  /\ ret.op = "PeekShape"
  /\ implDone # <<>>

\* C4: the shape PeekShape returned before decoding equals the shape GetShape
\* returns after the successful Decode of the same Image.
C4_PeekEqualsGetShape ==
  (ret.op = "GetShape" /\ ret.status = "ok" /\ peeked # NoShape) =>
     ret.shape = peeked

\* GetShape succeeded on an Image that was peeked while Pending, with a
\* shape of non-zero area
C4_Witness ==
  /\ ret.op = "GetShape" /\ ret.status = "ok"
  /\ peeked # NoShape
  /\ ret.shape[1] * ret.shape[2] > 0

\* C5: a PeekShape call never raises InvalidState, in either state; it
\* returns what PeekShapeImpl gives for the constructed (buffer, length) and
\* leaves decoded_, decoded_image_ and shape_ unchanged.
C5_PeekShapePure ==
  [][(ret'.op = "PeekShape") =>
       LET r == PeekShapeImpl(ctor.buffer, ctor.length) IN
       /\ ret'.status # "InvalidState"
       /\ ret'.status = (IF r.ok THEN "ok" ELSE "DecodeError")
       /\ ret'.shape = r.shape
       /\ UNCHANGED <<decoded_, decoded_image_, shape_>>]_vars

\* PeekShape succeeded on a Decoded Image after it had succeeded while the
\* Image was Pending, on a buffer longer than the constructed length
C5_Witness ==
  /\ decoded_
  /\ ret.op = "PeekShape" /\ ret.status = "ok"
  /\ peeked # NoShape
  /\ Len(encoded_image_) > length_

\* C6: after a successful Decode, every GetImage returns the very buffer
\* (same allocation, same bytes) and every GetShape the very shape that
\* DecodeImpl returned during that Decode.
C6_GetReturnsDecoded ==
  (implDone # <<>> /\ ret.op \in {"GetImage", "GetShape"}) =>
     /\ ret.status = "ok"
     /\ ret.op = "GetImage" => ret.image = implDone[1].first
     /\ ret.op = "GetShape" => ret.shape = implDone[1].second

\* GetImage handed out the buffer that the one successful DecodeImpl allocated
C6_Witness ==
  /\ Len(implDone) = 1
  /\ ret.op = "GetImage" /\ ret.status = "ok"
  /\ ret.image.addr = 1 /\ Len(ret.image.data) = 2

-----------------------------------------------------------------------------
(* What the classifier's claims speak of, defined apart from the code *)

\* a and b are the same character up to letter case
SameLetter(a, b) ==
  \/ a = b
  \/ a \in 65..90 /\ b = a + 32
  \/ b \in 65..90 /\ a = b + 32

\* p is an upper-, lower- or mixed-case variant of q
CaseVariant(p, q) ==
  /\ Len(p) = Len(q)
  /\ \A i \in 1..Len(p) : SameLetter(p[i], q[i])

\* p ends, letter case aside, with e
EndsWithIgnoringCase(p, e) ==
  /\ Len(e) <= Len(p)
  /\ CaseVariant(SubSeq(p, Len(p) - Len(e) + 1, Len(p)), e)

\* p ends with some entry of the known list
EndsWithKnown(p) == \E i \in 1..Len(known) : EndsWithIgnoringCase(p, known[i])

\* t occurs in s as a contiguous run
Contains(s, t) ==
  \E i \in 1..(Len(s) - Len(t) + 1) : SubSeq(s, i, i + Len(t) - 1) = t

RECURSIVE UpToNul(_)
\* the C string a path is read as: its characters up to the first 0
UpToNul(p) ==
  IF p = <<>> \/ Head(p) = 0 THEN <<>> ELSE <<Head(p)>> \o UpToNul(Tail(p))

\* p is present verbatim in the skip list
InSkipList(p) ==
  \E i \in 1..Len(kSkipImageExtensions) : p = kSkipImageExtensions[i]

RECURSIVE JoinWith(_, _)
\* the entries of a non-empty list with sep between neighbours
JoinWith(list, sep) ==
  IF Len(list) = 1 THEN list[1]
  ELSE list[1] \o sep \o JoinWith(Tail(list), sep)

RECURSIVE SplitOn(_, _)
\* the pieces of s between the occurrences of sep, leftmost first
SplitOn(s, sep) ==
  LET at == {i \in 1..(Len(s) - Len(sep) + 1) : SubSeq(s, i, i + Len(sep) - 1) = sep}
  IN  IF at = {} THEN <<s>>
      ELSE LET i == CHOOSE k \in at : \A m \in at : k <= m
           IN  <<SubSeq(s, 1, i - 1)>> \o SplitOn(SubSeq(s, i + Len(sep), Len(s)), sep)

-----------------------------------------------------------------------------
(* Claims about the classifier, checked under SpecClassifier and SpecList *)

\* C7: for every known entry e, every upper-, lower- or mixed-case variant
\* of the path "x" + e is classified true.
C7_KnownExtensionAnyCase ==
  (result # <<>> /\ \E i \in 1..Len(known) :
                       CaseVariant(image_path, <<120>> \o known[i])) =>
     result = <<TRUE>>

\* the mixed-case path "X.jP" was classified true
C7_Witness ==
  /\ image_path = <<88, 46, 106, 80>>
  /\ result = <<TRUE>>

\* C8: a path present verbatim in the skip list is classified false and no
\* diagnostic is written, even when it ends with a known extension.
C8_SkipListSilent ==
  (result # <<>> /\ InSkipList(image_path)) =>
     (result = <<FALSE>> /\ cerr = <<>>)

\* the skip-list entry "xx.p", which ends with the known ".p", was classified
C8_Witness ==
  /\ image_path = <<120, 120, 46, 112>>
  /\ EndsWithKnown(image_path)
  /\ result = <<FALSE>>
  /\ cerr = <<>>

C10_ListingSplitsToKnown ==
  listed # <<>> => SplitOn(listed[1], <<44, 32>>) = known

\* a listing of three or more entries was produced
C10_Witness ==
  /\ listed # <<>>
  /\ Len(known) >= 3
  /\ Len(SplitOn(listed[1], <<44, 32>>)) >= 3

\* C11: HasKnownImageExtension(p) is true exactly when p equals, byte for
\* byte, no skip-list entry and p ends, letter case aside, with a known entry.
C11_TrueIffNotSkippedAndKnownSuffix ==
  result # <<>> =>
    (result = <<TRUE>>) = (~InSkipList(image_path) /\ EndsWithKnown(image_path))

\* p differs from some skip-list entry in letter case only
SkipEntryButForCase(p) ==
  /\ ~InSkipList(p)
  /\ \E i \in 1..Len(kSkipImageExtensions) : CaseVariant(p, kSkipImageExtensions[i])

\* C12: the skip-list check reads the path as given, not lower-cased: a path
\* that differs from a skip entry in letter case only is not skipped silently;
\* it is classified true if it ends with a known entry and otherwise draws the
\* diagnostic.
C12_SkipCheckCaseSensitive ==
  (result # <<>> /\ SkipEntryButForCase(image_path)) =>
     IF EndsWithKnown(image_path)
       THEN result = <<TRUE>> /\ cerr = <<>>
       ELSE result = <<FALSE>> /\ Len(cerr) = 1 /\ Contains(cerr[1], image_path)

\* "Xx.P", the skip entry "xx.p" but for its letter case, was classified true
C12_Witness ==
  /\ image_path = <<88, 120, 46, 80>>
  /\ SkipEntryButForCase(image_path)
  /\ result = <<TRUE>>

-----------------------------------------------------------------------------
(* Further claims about Image, checked under Spec *)

\* C13: when DecodeImpl throws during Decode on a Pending Image, the error
\* reaches the caller and the Image stays Pending with no stored buffer or
\* shape; afterwards GetImage and GetShape still fail with InvalidState, and
\* a further Decode is not rejected but calls DecodeImpl again.
C13_FailedDecodeLeavesPending ==
  /\ [][(ret'.op = "Decode" /\ ret'.status = "DecodeError") =>
          /\ ret'.impl # <<>>
          /\ ~decoded_'
          /\ decoded_image_' = NullPtr
          /\ shape_' = NoShape
          /\ implDone' = <<>>]_vars
  /\ [][(implFailed > 0 /\ ~decoded_) =>
          /\ ret'.op \in {"GetImage", "GetShape"} => ret'.status = "InvalidState"
          /\ ret'.op = "Decode" =>
               (ret'.status # "InvalidState" /\ ret'.impl # <<>>)]_vars

\* DecodeImpl threw for a second time: the Decode after a failed Decode was
\* let through, and the Image is still Pending
C13_Witness ==
  /\ implFailed >= 2
  /\ ret.op = "Decode" /\ ret.status = "DecodeError"
  /\ ~decoded_ /\ decoded_image_ = NullPtr /\ shape_ = NoShape
  /\ peeked # NoShape

\* C14: under serial calls the decoded flag is true exactly when the Image
\* holds the buffer and shape a completed DecodeImpl call returned: both are
\* absent while Pending and present once Decoded.
C14_FlagIffHoldsDecoded ==
  IF decoded_
    THEN /\ Len(implDone) = 1
         /\ decoded_image_ = implDone[1].first /\ decoded_image_ # NullPtr
         /\ shape_ = implDone[1].second /\ shape_ # NoShape
    ELSE /\ implDone = <<>>
         /\ decoded_image_ = NullPtr
         /\ shape_ = NoShape

\* a Decoded Image holding a two-pixel buffer, reached after a PeekShape
C14_Witness ==
  /\ decoded_
  /\ Len(decoded_image_.data) = 2 /\ shape_ # NoShape
  /\ ret.op = "Decode" /\ ret.status = "ok"
  /\ peeked = shape_

\* the members of the Image
ImageFields ==
  <<encoded_image_, length_, image_type_, decoded_, decoded_image_, shape_>>

\* C15: only Decode changes an Image: GetImage, GetShape (and PeekShape),
\* whether they succeed or fail, leave every member unchanged; and no call,
\* Decode included, changes the encoded view or the colour type, which stay
\* as given at construction.
C15_OnlyDecodeChangesImage ==
  /\ [][ret'.op # "Decode" => UNCHANGED ImageFields]_vars
  /\ [][/\ UNCHANGED <<encoded_image_, length_, image_type_>>
        /\ encoded_image_' = ctor.buffer
        /\ length_' = ctor.length
        /\ image_type_' = ctor.type]_vars

\* GetImage succeeded on a Decoded Image whose buffer is still in place
C15_Witness ==
  /\ ret.op = "GetImage" /\ ret.status = "ok"
  /\ decoded_image_ = ret.image /\ decoded_image_ # NullPtr
  /\ encoded_image_ = ctor.buffer /\ length_ = ctor.length

\* C16: every DecodeImpl call made by Decode is handed exactly the colour
\* type, buffer and length given at construction, and under serial calls at
\* most one DecodeImpl call completes normally.
C16_DecodeImplArgsAndOnce ==
  /\ ret.impl # <<>> =>
       (ret.op = "Decode" /\ ret.impl = << <<ctor.type, ctor.buffer, ctor.length>> >>)
  /\ ret.op = "Decode" /\ ret.status # "InvalidState" => ret.impl # <<>>
  /\ Len(implDone) <= 1

\* DecodeImpl completed once, called with a length shorter than the buffer
C16_Witness ==
  /\ Len(implDone) = 1
  /\ ret.op = "Decode" /\ ret.status = "ok"
  /\ ret.impl[1][3] < Len(ret.impl[1][2])

-----------------------------------------------------------------------------
(* Claim about unsynchronised callers, checked under SpecConcurrent *)

\* the callers that DecodeImpl returned a result to
Returned == {t \in Threads : pc[t] \in {"store_image", "store_shape", "store_flag", "done"}}

\* C17: Decode takes no lock: whether a caller passes the guard depends on
\* decoded_ alone, whatever another caller is doing inside Decode; every
\* caller that passed it calls DecodeImpl; and two callers that both return
\* normally have each had DecodeImpl complete and each stored buffer and shape.
C17_NoLockInDecode ==
  /\ [][\A t \in Threads :
          (pc[t] = "call" /\ pc'[t] # "call") => ((pc'[t] = "impl") = ~decoded_)]_vars
  /\ [](/\ Len(implDone) = Cardinality(Returned)
        /\ heap = Len(implDone)
        /\ (\A t \in Threads : pc[t] = "done") =>
              /\ Len(implDone) = 2
              /\ implDone[1].first.addr # implDone[2].first.addr
              /\ decoded_
              /\ decoded_image_ \in {implDone[1].first, implDone[2].first}
              /\ shape_ \in {implDone[1].second, implDone[2].second})

\* both callers passed the guard, DecodeImpl completed twice, both stored
\* their result and returned; the Image holds the buffer decoded first
C17_Witness ==
  /\ \A t \in Threads : pc[t] = "done"
  /\ Len(implDone) = 2 /\ heap = 2
  /\ local[1] # local[2]
  /\ decoded_image_ = implDone[1].first

-----------------------------------------------------------------------------
(* Claim about Cast, checked under SpecCast *)

====
